---- MODULE Spec2Model ----
(***************************************************************************)
(* SortedCollectExecutor (arangod/Aql/SortedCollectExecutor.cpp): the      *)
(* sorted COLLECT operator.  produceRow pulls rows from a fetcher, folds   *)
(* the rows of one run into the CollectGroup _currentGroup and writes one  *)
(* output row when the run ends.                                           *)
(*                                                                         *)
(* One invocation of produceRow is modelled as the action Invoke (the      *)
(* code before the while loop) followed by one Pull per iteration of the   *)
(* loop, so that what happens inside one invocation can be counted.        *)
(***************************************************************************)
EXTENDS Integers, Sequences, FiniteSets, TLC

\* ------------------------------------------------------------------ bounds
MaxLen   == 3   \* rows the source delivers
MaxKeys  == 2   \* group-key columns (infos.getGroupRegisters().size())
MaxAggs  == 1   \* aggregators (infos.getAggregateTypes().size()): none or MaxAggs

VARIABLES
  infos,          \* SortedCollectExecutorInfos, fixed at construction
  currentGroup,   \* _currentGroup : CollectGroup
  fetcherDone,    \* _fetcherDone
  output,         \* the output rows written so far (the last may be partial)
  heap,           \* per cloned key value: times moved out, times destroyed
  writes,         \* number of calls of writeToOutput so far
  pc,             \* "idle" | "loop" | "done" | "fault" | "destroyed"
  failed,         \* the assertion or exception that ended the last invocation
  status,         \* what the last invocation returned
  delivered,      \* the rows the fetcher has returned so far
  exhausted,      \* the fetcher has returned DONE
  lastFetch,      \* the state fetchRow returned last in the running invocation
  suspended,      \* the fetcher has returned WAITING at least once
  writesAtEntry,  \* value of writes when the running invocation started
  pulledAfterDone,\* fetchRow was called after the fetcher had returned DONE
  resetFoundKeys, \* some call of reset found a key slot that was not empty
  ref             \* the same executor fed the same rows without any WAITING

vars == <<infos, currentGroup, fetcherDone, output, heap, writes, pc, failed, status,
          delivered, exhausted, lastFetch, suspended, writesAtEntry,
          pulledAfterDone, resetFoundKeys, ref>>

\* ------------------------------------------------------------------ values
\* AqlValue: val is what Compare sees, id names the heap copy it owns
\* (0: owns nothing).
\* The values of a key register: null and one value that is not null.  Compare
\* is only ever tested against 0, so what matters of two values is whether
\* they are equal and whether one of them is null.
Null == 0
None == 0 - 1
Values == {Null, Null + 1}

\* a default-constructed AqlValue (an erased slot)
EmptyValue == [val |-> None, id |-> 0]

\* InputAqlItemRow{CreateInvalidInputRowHint{}}
InvalidRow == [init |-> FALSE, key |-> <<>>, id |-> 0]

\* The initialized rows with n group-key registers; id is the row's position
\* in the stream and stands for the value of every non-key register.
Rows(n, i) == {[init |-> TRUE, key |-> k, id |-> i] : k \in [1 .. n -> Values]}

\* AqlValue::Compare on the values of a key register.  It orders by type
\* weight first, and the empty slice of an erased AqlValue (None) has the
\* weight of null, so an empty slot compares equal to a null key.
TypeWeight(v) == IF v = None THEN Null ELSE v

Compare(l, r) ==
  IF TypeWeight(l) < TypeWeight(r) THEN 0 - 1
  ELSE IF TypeWeight(l) > TypeWeight(r) THEN 1
  ELSE 0

\* ------------------------------------------------------------------ config
\* The four collected-value modes, as the three fields the code branches on:
\* getCollectRegister() != MaxRegisterId, getCount(), getExpressionVariable()
\* != nullptr.
Modes ==
  { [collectRegister |-> TRUE,  count |-> TRUE,  expressionVariable |-> FALSE],
    [collectRegister |-> TRUE,  count |-> FALSE, expressionVariable |-> TRUE],
    [collectRegister |-> TRUE,  count |-> FALSE, expressionVariable |-> FALSE],
    [collectRegister |-> FALSE, count |-> FALSE, expressionVariable |-> FALSE] }

Infos ==
  { [nGroup |-> n, nAgg |-> a, collectRegister |-> m.collectRegister,
     count |-> m.count, expressionVariable |-> m.expressionVariable] :
       n \in 0 .. MaxKeys, a \in {0, MaxAggs}, m \in Modes }

CountOnly       == infos.collectRegister /\ infos.count
ExpressionArray == infos.collectRegister /\ ~infos.count /\ infos.expressionVariable
ObjectArray     == infos.collectRegister /\ ~infos.count /\ ~infos.expressionVariable
ArrayMode       == ExpressionArray \/ ObjectArray

\* ------------------------------------------------------------------ builder
\* VPackBuilder: open says that an array is open, elems is what was added.
NewBuilder == [open |-> FALSE, elems |-> <<>>]

openArray(b) == [b EXCEPT !.open = TRUE]

isOpenArray(b) == b.open

\* ------------------------------------------------------------------ heap
NewHeap == [moved |-> <<>>, destroyed |-> <<>>]

\* AqlValue::clone: a fresh owned copy
clone(h) == [moved |-> Append(h.moved, 0), destroyed |-> Append(h.destroyed, 0)]

\* AqlValue::destroy: frees what the value owns and leaves the slot as it is
destroy(h, v) == IF v.id = 0 THEN h ELSE [h EXCEPT !.destroyed[v.id] = @ + 1]

\* moveValueInto: the output row takes what the value owns
moveValueInto(h, v) == IF v.id = 0 THEN h ELSE [h EXCEPT !.moved[v.id] = @ + 1]

RECURSIVE destroyAll(_, _, _)
destroyAll(h, gv, i) ==
  IF i > Len(gv) THEN h ELSE destroyAll(destroy(h, gv[i]), gv, i + 1)

\* ------------------------------------------------------------------ CollectGroup
\* a group that always counts as valid
isValid_always(g) == TRUE

\* The members of CollectGroup; members (history) lists the rows addLine has
\* folded in since the group was last reset.
isValid(g) == g.lastInputRow.init

\* An aggregator is the calls it has received since its value was last
\* stolen: reset_ for reset(), the id of the row for a reduce() with the value
\* of that row's register.
reset_ == 0

\* what the aggregator holds: the values reduced since it was last reset
RECURSIVE value(_)
value(a) ==
  IF a = <<>> \/ a[Len(a)] = reset_ THEN <<>>
  ELSE Append(value(SubSeq(a, 1, Len(a) - 1)), a[Len(a)])

\* CollectGroup::CollectGroup followed by initialize(capacity)
initialize(capacity) ==
  [groupValues  |-> [i \in 1 .. capacity |-> EmptyValue],
   groupLength  |-> 0,
   aggregators  |-> [j \in 1 .. infos.nAgg |-> <<reset_>>],
   builder      |-> NewBuilder,
   lastInputRow |-> InvalidRow,
   members      |-> <<>>]

\* an executor: the group, _fetcherDone, the output and the heap, with the
\* assertion or exception that ended the running step (if any), what the step
\* returned, and the failure point that throws when the step reaches it
NewExecutor ==
  [g |-> initialize(infos.nGroup), fetcherDone |-> FALSE, out |-> <<>>,
   heap |-> NewHeap, writes |-> 0, resetFoundKeys |-> FALSE, fault |-> "",
   ret |-> "NONE", inject |-> "none"]

\* Where an exception can be thrown: the two TRI_IF_FAILURE points, and the
\* calls that allocate (Aggregator::reduce, toVelocyPack into the builder,
\* AqlValue::clone).
FailurePoints ==
  {"SortedCollectExecutor::produceRow", "CollectGroup::addValues",
   "Aggregator::reduce", "toVelocyPack", "AqlValue::clone"}

\* the exception of failure point p leaves e as it is at that point
throw(e, p) == [e EXCEPT !.fault = p]

\* return st, unless an assertion failed or an exception is on its way
returns(e, st) == [e EXCEPT !.ret = IF e.fault # "" THEN "FAULT" ELSE st]

\* every aggregator reduces the row twice
reduceAll_twice(aggs, input) ==
  [j \in 1 .. Len(aggs) |-> aggs[j] \o <<input.id, input.id>>]

\* Aggregator::reduce on every aggregator, each with the value of its register
reduceAll(aggs, input) == [j \in 1 .. Len(aggs) |-> Append(aggs[j], input.id)]

\* Aggregator::reset on every aggregator
resetAll(aggs) == [j \in 1 .. Len(aggs) |-> Append(aggs[j], reset_)]

\* Aggregator::stealValue on every aggregator: the value leaves it
stealAll(aggs) == [j \in 1 .. Len(aggs) |-> <<>>]

\* addCollected counting only the rows that join an open run: the row that
\* opened it is left out
addCollected_skipFirst(g, input) ==
  IF infos.collectRegister
  THEN IF infos.count
       THEN [g EXCEPT !.groupLength = IF g.members = <<input.id>> THEN @ ELSE @ + 1]
       ELSE IF infos.expressionVariable
            THEN [g EXCEPT !.builder.elems = Append(@, [kind |-> "expr", of |-> input.id])]
            ELSE [g EXCEPT !.builder.elems = Append(@, [kind |-> "obj", of |-> input.id])]
  ELSE g

\* addLine, the collected value: count, expression value or object of variables
addCollected(g, input) ==
  IF infos.collectRegister
  THEN IF infos.count
       THEN [g EXCEPT !.groupLength = @ + 1]
       ELSE IF infos.expressionVariable
            THEN [g EXCEPT !.builder.elems = Append(@, [kind |-> "expr", of |-> input.id])]
            ELSE [g EXCEPT !.builder.elems = Append(@, [kind |-> "obj", of |-> input.id])]
  ELSE g

\* addLine that does not remember the row it was given
addLine_noRemember(e, input) ==
  LET g1 == [e.g EXCEPT !.aggregators = reduceAll(@, input),
                        !.members = Append(@, input.id)]
  IN [e EXCEPT !.g = addCollected(g1, input)]

addLine(e, input) ==
  LET e1 == [e EXCEPT !.g.lastInputRow = input]
      g2 == [e1.g EXCEPT !.aggregators = reduceAll(@, input),
                         !.members = Append(@, input.id)]
      e3 == [e EXCEPT !.g = addCollected(g2, input)]
  IN IF e.inject = "Aggregator::reduce" /\ infos.nAgg > 0
     THEN throw(e1, "Aggregator::reduce")
     ELSE IF e.inject = "toVelocyPack" /\ ArrayMode
     THEN throw([e EXCEPT !.g = g2], "toVelocyPack")
     ELSE IF e.inject = "CollectGroup::addValues"
     THEN throw(e3, "CollectGroup::addValues")
     ELSE e3

\* reset, the teardown of the key slots: destroy all, erase slot 0 only
eraseSlots(gv) == [gv EXCEPT ![1] = EmptyValue]

\* reset, the loop cloning the key registers of the row into the slots
RECURSIVE cloneKeys(_, _, _)
cloneKeys(e, input, i) ==
  IF i > infos.nGroup THEN e
  ELSE IF e.inject = "AqlValue::clone" /\ i = infos.nGroup
  THEN throw(e, "AqlValue::clone")
  ELSE LET h == clone(e.heap)
       IN cloneKeys([e EXCEPT !.heap = h,
                              !.g.groupValues[i] =
                                 [val |-> input.key[i], id |-> Len(h.moved)]],
                    input, i + 1)

reset(e, input) ==
  LET gv == e.g.groupValues
      h1 == IF gv # <<>> THEN destroyAll(e.heap, gv, 1) ELSE e.heap
      g1 == [e.g EXCEPT !.builder = NewBuilder,
                        !.groupValues = IF gv # <<>> THEN eraseSlots(gv) ELSE gv,
                        !.groupLength = 0,
                        !.lastInputRow = input,
                        !.aggregators = resetAll(@),
                        !.members = <<>>]
      e1 == [e EXCEPT !.g = g1, !.heap = h1,
                      !.resetFoundKeys = (@ \/ \E i \in 1 .. Len(gv) : gv[i] # EmptyValue)]
      e2 == cloneKeys([e1 EXCEPT !.g.builder = openArray(@)], input, 1)
  IN IF ~input.init THEN e1
     ELSE IF e2.fault # "" THEN e2
     ELSE addLine(e2, input)

\* isSameGroup without the test for an uninitialized row: the comparison loop
\* alone decides, and with no key register it has nothing to compare
isSameGroup_noInitCheck(g, input) ==
  IF ~input.init THEN infos.nGroup = 0
  ELSE \A i \in 1 .. infos.nGroup : Compare(g.groupValues[i].val, input.key[i]) = 0

\* isSameGroup where every comparison overwrites the result of the one before
isSameGroup_lastWins(g, input) ==
  IF ~input.init THEN FALSE
  ELSE infos.nGroup = 0
         \/ Compare(g.groupValues[infos.nGroup].val, input.key[infos.nGroup]) = 0

\* isSameGroup, the loop over the group registers from position i on: it
\* returns false at the first comparison that is not 0
RECURSIVE compareFrom(_, _, _)
compareFrom(g, input, i) ==
  IF i > infos.nGroup THEN TRUE
  ELSE IF Compare(g.groupValues[i].val, input.key[i]) # 0 THEN FALSE
  ELSE compareFrom(g, input, i + 1)

isSameGroup(g, input) ==
  IF ~input.init THEN FALSE
  ELSE compareFrom(g, input, 1)

\* moveKeys without the erase of the slot
RECURSIVE moveKeys_noErase(_, _)
moveKeys_noErase(e, i) ==
  IF i > infos.nGroup THEN e
  ELSE moveKeys_noErase([e EXCEPT !.heap = moveValueInto(@, e.g.groupValues[i])], i + 1)

\* writeToOutput, the key slots: each value is moved into the output row and
\* the slot erased
RECURSIVE moveKeys(_, _)
moveKeys(e, i) ==
  IF i > infos.nGroup THEN e
  ELSE moveKeys([e EXCEPT !.heap = moveValueInto(@, e.g.groupValues[i]),
                          !.g.groupValues[i] = EmptyValue], i + 1)

NoCollected == [kind |-> "none", n |-> 0, elems |-> <<>>]

\* the collected value serialized when the row is written, not row by row:
\* toVelocyPack can then throw after the keys and aggregates were written
writeCollected_serializeLate(e, row0) ==
  IF ~infos.collectRegister
  THEN [e EXCEPT !.out = Append(@, [row0 EXCEPT !.produced = TRUE])]
  ELSE IF infos.count
  THEN [e EXCEPT !.out = Append(@, [row0 EXCEPT
            !.collected = [kind |-> "count", n |-> e.g.groupLength, elems |-> <<>>],
            !.produced = TRUE])]
  ELSE IF e.inject = "toVelocyPack"
  THEN throw([e EXCEPT !.out = Append(@, row0)], "toVelocyPack")
  ELSE IF ~isOpenArray(e.g.builder)
  THEN [e EXCEPT !.out = Append(@, row0), !.fault = "assert isOpenArray"]
  ELSE [e EXCEPT !.out = Append(@, [row0 EXCEPT
            !.collected = [kind |-> "array", n |-> 0, elems |-> e.g.builder.elems],
            !.produced = TRUE]),
                 !.g.builder = NewBuilder]

\* writeToOutput, the collected value, after the keys and the aggregates
\* (row0): nothing, the count, or the array of the builder
writeCollected(e, row0) ==
  IF ~infos.collectRegister
  THEN [e EXCEPT !.out = Append(@, [row0 EXCEPT !.produced = TRUE])]
  ELSE IF infos.count
  THEN [e EXCEPT !.out = Append(@, [row0 EXCEPT
            !.collected = [kind |-> "count", n |-> e.g.groupLength, elems |-> <<>>],
            !.produced = TRUE])]
  ELSE IF ~isOpenArray(e.g.builder)
  THEN [e EXCEPT !.out = Append(@, row0), !.fault = "assert isOpenArray"]
  ELSE [e EXCEPT !.out = Append(@, [row0 EXCEPT
            !.collected = [kind |-> "array", n |-> 0, elems |-> e.g.builder.elems],
            !.produced = TRUE]),
                 !.g.builder = NewBuilder]

\* A failed TRI_ASSERT ends the invocation (fault); where assertions are
\* compiled out, _builder.close() on a builder with nothing open throws at the
\* same place.  The row is then left with its keys and aggregates written and
\* no collected value (produced = FALSE).
writeToOutput(e) ==
  IF ~isValid(e.g) THEN [e EXCEPT !.fault = "assert lastInputRow", !.writes = @ + 1]
  ELSE
    LET row0 == [keys |-> [i \in 1 .. infos.nGroup |-> e.g.groupValues[i].val],
                 aggs |-> [j \in 1 .. infos.nAgg |-> value(e.g.aggregators[j])],
                 calls |-> e.g.aggregators,
                 collected |-> NoCollected,
                 src |-> e.g.lastInputRow.id,
                 members |-> e.g.members,
                 produced |-> FALSE]
        e1 == [moveKeys(e, 1) EXCEPT !.g.aggregators = stealAll(@), !.writes = @ + 1]
    IN writeCollected(e1, row0)

\* ------------------------------------------------------------------ produceRow
\* writeToOutput followed by reset(input) and return of st, unless an
\* assertion of writeToOutput failed
writeResetReturn(e, input, st) ==
  LET w == writeToOutput(e)
  IN IF w.fault # "" THEN returns(w, st)
     ELSE returns(reset(w, input), st)

\* the code before the loop, forgetting to write the group that is left over
produceRowEntry_dropPending(e) ==
  IF e.fetcherDone /\ isValid(e.g)
  THEN [reset(e, InvalidRow) EXCEPT !.ret = "DONE"]
  ELSE [e EXCEPT !.ret = "CONTINUE"]

\* the code before the loop: a group left over when the fetcher is done
produceRowEntry(e) ==
  IF e.inject = "SortedCollectExecutor::produceRow"
  THEN returns(throw(e, "SortedCollectExecutor::produceRow"), "NONE")
  ELSE IF e.fetcherDone /\ isValid(e.g)
  THEN writeResetReturn(e, InvalidRow, "DONE")
  ELSE [e EXCEPT !.ret = "CONTINUE"]

\* WAITING taken for the end of the stream: the open group is dropped
onWaiting_dropGroup(e) == [reset(e, InvalidRow) EXCEPT !.ret = "WAITING"]

\* WAITING recorded as exhaustion of the fetcher
onWaiting_markDone(e) == [e EXCEPT !.fetcherDone = TRUE, !.ret = "WAITING"]

\* WAITING from the fetcher
onWaiting(e) == [e EXCEPT !.ret = "WAITING"]

\* no return after a group was written and a new one started from a row
afterNewGroup_continue(input) == IF input.init THEN "CONTINUE" ELSE "DONE"

\* what is returned after a group was written and a new one started
afterNewGroup(input) == IF input.init THEN "HASMORE" ELSE "DONE"

\* DONE from the fetcher is not recorded
recordDone_never(e, state) == e

\* DONE from the fetcher sets _fetcherDone
recordDone(e, state) == [e EXCEPT !.fetcherDone = (@ \/ state = "DONE")]

\* one iteration of the while loop, given what fetchRow returned
loopBody(e, state, input) ==
  IF state = "WAITING" THEN onWaiting(e)
  ELSE
    LET e0 == recordDone(e, state)
    IN IF isSameGroup(e0.g, input)
       THEN LET e1 == addLine(e0, input)
            IN IF state = "DONE" /\ e1.fault = ""
               THEN writeResetReturn(e1, InvalidRow, "DONE")
               ELSE returns(e1, "CONTINUE")
       ELSE IF isValid(e0.g)
       THEN writeResetReturn(e0, input, afterNewGroup(input))
       ELSE IF ~input.init
       THEN [e0 EXCEPT !.ret = "DONE"]
       ELSE returns(reset(e0, input), "CONTINUE")

\* ~CollectGroup
destructor(e) == [e EXCEPT !.heap = destroyAll(@, e.g.groupValues, 1)]

\* ------------------------------------------------------------------ fetcher
\* SingleRowFetcher::fetchRow: WAITING without a row, HASMORE with a row, DONE
\* with the last row or with none; after DONE it keeps answering DONE with no
\* row.
FetchResults ==
  IF exhausted THEN {[state |-> "DONE", row |-> InvalidRow]}
  ELSE {[state |-> "WAITING", row |-> InvalidRow]}
       \cup {[state |-> "DONE", row |-> InvalidRow]}
       \cup {[state |-> s, row |-> r] :
               s \in {"HASMORE", "DONE"},
               r \in IF Len(delivered) < MaxLen
                     THEN Rows(infos.nGroup, Len(delivered) + 1) ELSE {}}

\* ------------------------------------------------------------------ actions
Init ==
  /\ infos \in Infos
  /\ currentGroup = initialize(infos.nGroup)
  /\ fetcherDone = FALSE
  /\ output = <<>>
  /\ heap = NewHeap
  /\ writes = 0
  /\ pc = "idle"
  /\ failed = ""
  /\ status = "NONE"
  /\ delivered = <<>>
  /\ exhausted = FALSE
  /\ lastFetch = "NONE"
  /\ suspended = FALSE
  /\ writesAtEntry = 0
  /\ pulledAfterDone = FALSE
  /\ resetFoundKeys = FALSE
  /\ ref = NewExecutor

Executor ==
  [g |-> currentGroup, fetcherDone |-> fetcherDone, out |-> output,
   heap |-> heap, writes |-> writes, resetFoundKeys |-> resetFoundKeys,
   fault |-> "", ret |-> status, inject |-> "none"]

\* the executor's variables after a step that left it as e
Becomes(e) ==
  /\ currentGroup' = e.g
  /\ fetcherDone' = e.fetcherDone
  /\ output' = e.out
  /\ heap' = e.heap
  /\ writes' = e.writes
  /\ resetFoundKeys' = e.resetFoundKeys
  /\ failed' = e.fault
  /\ pc' = CASE e.ret = "CONTINUE" -> "loop"
             [] e.ret = "DONE"     -> "done"
             [] e.ret = "FAULT"    -> "fault"
             [] OTHER              -> "idle"
  /\ status' = IF e.ret = "CONTINUE" THEN status ELSE e.ret

\* the caller invokes produceRow, with failure point p armed
InvokeWith(p) ==
  /\ pc = "idle"
  /\ Becomes(produceRowEntry([Executor EXCEPT !.inject = p]))
  /\ writesAtEntry' = writes
  /\ lastFetch' = "NONE"
  /\ ref' = IF status = "WAITING" THEN ref ELSE produceRowEntry(ref)
  /\ UNCHANGED <<infos, delivered, exhausted, suspended, pulledAfterDone>>

\* the caller invokes produceRow
Invoke == InvokeWith("none")

\* one iteration of the loop of produceRow, fetchRow and what follows: the
\* iteration in which failure point p throws, or with "none" the one in which
\* nothing is thrown
PullWith(p) ==
  /\ pc = "loop"
  /\ \E f \in FetchResults :
       LET e == loopBody([Executor EXCEPT !.inject = p], f.state, f.row) IN
       /\ p \in {"none", e.fault}
       /\ Becomes(e)
       /\ delivered' = IF f.row.init THEN Append(delivered, f.row) ELSE delivered
       /\ exhausted' = (exhausted \/ f.state = "DONE")
       /\ lastFetch' = f.state
       /\ suspended' = (suspended \/ f.state = "WAITING")
       /\ ref' = IF f.state = "WAITING" THEN ref ELSE loopBody(ref, f.state, f.row)
  /\ pulledAfterDone' = (pulledAfterDone \/ exhausted)
  /\ UNCHANGED <<infos, writesAtEntry>>

\* one iteration of the loop of produceRow
Pull == PullWith("none")

\* the executor is destroyed between two invocations, or after the last
Destroy ==
  /\ pc \in {"idle", "done", "fault"}
  /\ heap' = destructor(Executor).heap
  /\ pc' = "destroyed"
  /\ UNCHANGED <<infos, currentGroup, fetcherDone, output, writes, failed, status,
                 delivered, exhausted, lastFetch, suspended, writesAtEntry,
                 pulledAfterDone, resetFoundKeys, ref>>

Next == Invoke \/ Pull \/ Destroy

Spec == Init /\ [][Next]_vars

\* the failure points the configuration lets the loop reach
CanThrow(p) ==
  CASE p = "Aggregator::reduce"      -> infos.nAgg > 0
    [] p = "toVelocyPack"            -> ArrayMode
    [] p = "AqlValue::clone"         -> infos.nGroup > 0
    [] p = "CollectGroup::addValues" -> TRUE
    [] OTHER                         -> FALSE

\* an invocation ended by TRI_IF_FAILURE at its entry
InvokeFails == InvokeWith("SortedCollectExecutor::produceRow")

\* an iteration of the loop ended by the exception of a failure point
PullFails == \E p \in {q \in FailurePoints : CanThrow(q)} : PullWith(p)

\* an iteration of the loop in which the fetcher does not answer WAITING
PullRow == Pull /\ lastFetch' # "WAITING"

\* The executor with exceptions, on the executions without WAITING (by C3
\* the executor passes through the same states with it).
FaultNext == Invoke \/ PullRow \/ InvokeFails \/ PullFails

FaultSpec == Init /\ [][FaultNext]_vars

\* The executor that is not destroyed before Done: the caller invokes
\* produceRow again after every WAITING and HASMORE (WF on Invoke), and the
\* fetcher answers WAITING only finitely often (SF on PullRow).
LiveNext == Invoke \/ Pull

LiveSpec == Init /\ [][LiveNext]_vars /\ WF_vars(Invoke) /\ SF_vars(PullRow)

\* ------------------------------------------------------------------ properties
\* The maximal runs of consecutive rows with equal group keys, each as the
\* sequence of its rows' ids.
RECURSIVE Runs(_)
Runs(rows) ==
  IF rows = <<>> THEN <<>>
  ELSE LET n    == Len(rows)
           prev == Runs(SubSeq(rows, 1, n - 1))
       IN IF n > 1 /\ rows[n - 1].key = rows[n].key
          THEN [prev EXCEPT ![Len(prev)] = Append(@, rows[n].id)]
          ELSE Append(prev, <<rows[n].id>>)

\* the chain of invocations has ended: Done was reported, or an assertion failed
Ended == pc \in {"done", "fault"}

\* C1: when the invocations have ended, the output holds exactly one complete
\* row per maximal run of the delivered rows, in the order of the runs (row i
\* is made of the rows of run i).
C1_OneRowPerRun ==
  Ended =>
    /\ pc = "done"
    /\ Len(output) = Len(Runs(delivered))
    /\ \A i \in 1 .. Len(output) :
         output[i].produced /\ output[i].members = Runs(delivered)[i]

\* C1 outside the configurations in which the collected-value buffer is used
\* (not a claim's formula; kept to show where C1 does hold)
C1_OutsideArrayModes == ArrayMode \/ C1_OneRowPerRun

\* C2: in CountOnly mode every count written is the number of rows of its run,
\* and between the rows the counter is the number of rows of the open run (0
\* when no run is open), so nothing carries over from one run to the next.
C2_CountIsRunLength ==
  CountOnly =>
    /\ \A i \in 1 .. Len(output) :
         /\ output[i].collected.kind = "count"
         /\ output[i].collected.n = Len(Runs(delivered)[i])
    /\ currentGroup.groupLength =
         IF isValid(currentGroup)
         THEN Len(Runs(delivered)[Len(Runs(delivered))]) ELSE 0

\* two runs were counted, the first of two rows or more
C2_Witness ==
  /\ CountOnly
  /\ Len(output) >= 2
  /\ output[1].collected.n >= 2
  /\ output[2].collected.n >= 1

\* the ids of the first n rows of the stream
Ids(n) == [k \in 1 .. n |-> k]

RECURSIVE Concat(_, _)
Concat(out, i) == IF i > Len(out) THEN <<>> ELSE out[i].members \o Concat(out, i + 1)

\* the rows that went into the output rows, in the order of the output
Contributed == Concat(output, 1)

\* C3: wherever the fetcher answers WAITING, the executor is in the state of
\* the executor that was fed the same rows with no WAITING at all: the same
\* output rows, the same group, the same heap, and Done (or a failed
\* assertion) at the same row; at Done every row has gone into exactly one
\* output row.
C3_SameAsWithoutSuspension ==
  /\ output = ref.out
  /\ currentGroup = ref.g
  /\ fetcherDone = ref.fetcherDone
  /\ writes = ref.writes
  /\ pc # "destroyed" => heap = ref.heap
  /\ status # "WAITING" => (pc = "loop" \/ status = ref.ret)
  /\ pc = "done" => ref.ret = "DONE" /\ Contributed = Ids(Len(delivered))
  /\ pc = "fault" => ref.ret = "FAULT"

\* Done after the fetcher has suspended, with three rows in two runs written
C3_Witness ==
  /\ pc = "done"
  /\ suspended
  /\ Len(output) >= 2
  /\ Len(delivered) >= 3

\* C4: a pull that answers WAITING ends the invocation with WAITING and leaves
\* the group (key slots, counter, aggregators, buffer, last row), the
\* exhausted flag, the output and the heap as they were.
C4_SuspendedChangesNothing ==
  [][(pc = "loop" /\ lastFetch' = "WAITING") =>
       /\ status' = "WAITING"
       /\ pc' = "idle"
       /\ UNCHANGED <<currentGroup, fetcherDone, output, heap, writes>>]_vars

\* suspended while a run is open and a row has been written
C4_Witness ==
  /\ status = "WAITING"
  /\ pc = "idle"
  /\ isValid(currentGroup)
  /\ Len(output) >= 1

\* C5: when the fetcher reports exhaustion before any row, the invocation
\* reports Done at once, nothing has been written and the group is invalid.
C5_EmptyInput ==
  (exhausted /\ delivered = <<>>) =>
    /\ pc \in {"done", "destroyed"}
    /\ status = "DONE"
    /\ output = <<>>
    /\ writes = 0
    /\ ~isValid(currentGroup)

\* Done on an empty stream, after a suspension, with no key register
C5_Witness ==
  /\ exhausted
  /\ delivered = <<>>
  /\ pc = "done"
  /\ suspended
  /\ infos.nGroup = 0

\* C6: one invocation calls writeToOutput at most once, and never pulls again
\* after it has.
C6_OneWritePerInvocation ==
  /\ writes - writesAtEntry \in {0, 1}
  /\ pc = "loop" => writes = writesAtEntry

\* the second invocation that wrote a row and returned HASMORE
C6_Witness ==
  /\ pc = "idle"
  /\ status = "HASMORE"
  /\ writes = writesAtEntry + 1
  /\ Len(output) = 2

\* C7: an invocation that reports HasMore has written exactly one row; one
\* that reports Done has written exactly one row, or none exactly when the
\* stream had no row; and at Done every delivered row is in a row written.
C7_StatusAndWrites ==
  /\ (pc = "idle" /\ status = "HASMORE") =>
        /\ writes = writesAtEntry + 1
        /\ Len(output) = writes
        /\ output[Len(output)].produced
  /\ pc = "done" =>
        /\ status = "DONE"
        /\ writes - writesAtEntry \in {0, 1}
        /\ (writes = writesAtEntry) <=> (delivered = <<>>)
        /\ Len(output) = writes
        /\ \A i \in 1 .. Len(output) : output[i].produced
        /\ \A k \in 1 .. Len(delivered) :
              \E i \in 1 .. Len(output) :
                \E j \in 1 .. Len(output[i].members) : output[i].members[j] = k

\* Done by the invocation that found the last group left over
C7_Witness ==
  /\ pc = "done"
  /\ lastFetch = "NONE"
  /\ Len(delivered) >= 2
  /\ Len(output) >= 2

\* C8: with no key register and at least one row, the invocations end with
\* Done and exactly one complete output row, to which every row contributed.
C8_ZeroKeysOneRow ==
  (infos.nGroup = 0 /\ Ended /\ delivered # <<>>) =>
    /\ pc = "done"
    /\ Len(output) = 1
    /\ output[1].produced
    /\ output[1].members = Ids(Len(delivered))
    /\ \A j \in 1 .. infos.nAgg : output[1].aggs[j] = Ids(Len(delivered))
    /\ CountOnly => output[1].collected.n = Len(delivered)
    /\ ArrayMode => Len(output[1].collected.elems) = Len(delivered)

\* C8 outside the array modes (not a claim's formula)
C8_OutsideArrayModes == ArrayMode \/ C8_ZeroKeysOneRow

\* C9: in the array modes the buffer is an open array whenever it holds an
\* element of the open run, and the assertion of writeToOutput never fails.
C9_BufferOpenWhenUsed ==
  ArrayMode =>
    /\ currentGroup.builder.elems # <<>> => isOpenArray(currentGroup.builder)
    /\ pc # "fault"

\* C9 with at least one key register and a first key that is not null (not a
\* claim's formula)
C9_KeyedNonNullFirst ==
  (infos.nGroup >= 1 /\ delivered # <<>> /\
     \E i \in 1 .. infos.nGroup : delivered[1].key[i] # Null)
    => C9_BufferOpenWhenUsed

\* C10: every cloned key value is released at most once while the executor
\* lives and exactly once when it has been destroyed; a value a slot holds has
\* not been released; no reset has found a key slot that was not empty.
C10_ReleasedOnce ==
  /\ \A id \in 1 .. Len(heap.moved) : heap.moved[id] + heap.destroyed[id] <= 1
  /\ pc = "destroyed" =>
        \A id \in 1 .. Len(heap.moved) : heap.moved[id] + heap.destroyed[id] = 1
  /\ pc # "destroyed" =>
        \A i \in 1 .. Len(currentGroup.groupValues) :
          LET id == currentGroup.groupValues[i].id
          IN id # 0 => heap.moved[id] + heap.destroyed[id] = 0
  /\ ~resetFoundKeys

\* destroyed with two key slots held, after the keys of an earlier run were
\* moved into the output
C10_Witness ==
  /\ pc = "destroyed"
  /\ infos.nGroup = 2
  /\ Len(heap.moved) >= 4
  /\ heap.moved[2] = 1
  /\ heap.destroyed[4] = 1

\* C11: the assertion at the top of writeToOutput never fails, and
\* writeToOutput has been called once for every run that was opened and has
\* ended, and for no other: as often as there are runs, less the open one.
C11_WriteOnValidOncePerRun ==
  LET runs == Len(Runs(delivered)) IN
  /\ failed # "assert lastInputRow"
  /\ pc \in {"idle", "loop", "done"} =>
        writes = runs - (IF isValid(currentGroup) THEN 1 ELSE 0)
  /\ pc = "done" => writes = runs
  /\ writes <= runs

\* three runs, each written by a call of its own
C11_Witness ==
  /\ pc = "done"
  /\ writes = 3
  /\ Len(Runs(delivered)) = 3

\* C12: the group-key columns of every output row hold the key values of the
\* input rows of its run, a null key included; when no two neighbouring rows
\* share a key there is, at the end, one output row per input row, and every
\* aggregate of it has one contribution.
C12_KeysCopiedUnchanged ==
  /\ \A i \in 1 .. Len(output) : \A m \in 1 .. Len(output[i].members) :
        \A k \in 1 .. infos.nGroup :
          output[i].keys[k] = delivered[output[i].members[m]].key[k]
  /\ (pc = "done" /\ Len(Runs(delivered)) = Len(delivered)) =>
        /\ Len(output) = Len(delivered)
        /\ \A i \in 1 .. Len(output) :
              /\ output[i].members = <<i>>
              /\ \A j \in 1 .. infos.nAgg : Len(output[i].aggs[j]) = 1

\* the same when the key of the first row has no null in its first column
C12_FirstKeyNotNull ==
  (delivered # <<>> /\ infos.nGroup > 0 /\ delivered[1].key[1] = Null)
    \/ C12_KeysCopiedUnchanged

\* the calls of one run: reset() once or more, then one reduce per row of the
\* run, in the order of the rows
CallsOfRun(a, run) ==
  /\ a # <<>>
  /\ a[1] = reset_
  /\ \A p \in 2 .. Len(a) : a[p] = reset_ => a[p - 1] = reset_
  /\ value(a) = run

\* C13: every aggregator receives, for each run, reset() at least once, then
\* reduce() once for each row of the run, then stealValue() once when the run
\* is written; what it emits has as many contributions as the run has rows.
C13_AggregatorCalls ==
  LET runs == Runs(delivered) IN
  \A j \in 1 .. infos.nAgg :
    /\ \A i \in 1 .. Len(output) :
          /\ i <= Len(runs)
          /\ CallsOfRun(output[i].calls[j], runs[i])
          /\ output[i].aggs[j] = runs[i]
    /\ pc \in {"idle", "loop", "done"} =>
          IF isValid(currentGroup)
          THEN CallsOfRun(currentGroup.aggregators[j], runs[Len(runs)])
          ELSE currentGroup.aggregators[j] = <<reset_>>

\* two runs written, the first of two rows or more, with an aggregator
C13_Witness ==
  /\ infos.nAgg > 0
  /\ pc = "done"
  /\ Len(output) = 2
  /\ Len(output[1].aggs[1]) >= 2
  /\ output[2].calls[1] = <<reset_, MaxLen>>

\* C14: wherever the loop is about to call it, and for every row the fetcher
\* may deliver there, isSameGroup is false for the absent row, false when
\* some key position compares non-equal to the stored key whatever the later
\* positions hold, and true otherwise.
C14_SameGroupIffAllEqual ==
  pc = "loop" =>
  /\ ~isSameGroup(currentGroup, InvalidRow)
  /\ \A r \in Rows(infos.nGroup, Len(delivered) + 1) :
        /\ (\E i \in 1 .. infos.nGroup :
               Compare(currentGroup.groupValues[i].val, r.key[i]) # 0)
             => ~isSameGroup(currentGroup, r)
        /\ (\A i \in 1 .. infos.nGroup :
               Compare(currentGroup.groupValues[i].val, r.key[i]) = 0)
             => isSameGroup(currentGroup, r)

\* two key columns: a row that differs from the open group in the first
\* column only has ended the group
C14_Witness ==
  /\ infos.nGroup = MaxKeys
  /\ Len(delivered) >= 2
  /\ delivered[1].key[1] # delivered[2].key[1]
  /\ delivered[1].key[MaxKeys] = delivered[2].key[MaxKeys]
  /\ Len(output) >= 1
  /\ output[1].members = <<1>>
  /\ isValid(currentGroup)

\* C15: between invocations the group is valid exactly when a row has been
\* pulled that is in no output row yet: never before the first row, always
\* after HASMORE (and then it holds the one row that ended the run before),
\* never after DONE.
C15_ValidIffRunOpen ==
  pc \in {"idle", "done"} =>
    /\ isValid(currentGroup) <=> Len(Contributed) < Len(delivered)
    /\ delivered = <<>> => ~isValid(currentGroup)
    /\ status = "HASMORE" =>
          /\ isValid(currentGroup)
          /\ currentGroup.members = <<Len(delivered)>>
          /\ currentGroup.lastInputRow = delivered[Len(delivered)]
    /\ status = "DONE" => ~isValid(currentGroup)

\* HASMORE after the second run was closed by the first row of the third
C15_Witness ==
  /\ pc = "idle"
  /\ status = "HASMORE"
  /\ Len(output) = 2
  /\ isValid(currentGroup)
  /\ currentGroup.members = <<MaxLen>>

\* the fetcher delivers its last row with DONE, and the row does not belong
\* to the group that is open
LastRowEndsGroup ==
  /\ pc = "loop"
  /\ lastFetch' = "DONE"
  /\ Len(delivered') > Len(delivered)
  /\ isValid(currentGroup)
  /\ ~isSameGroup(currentGroup, delivered'[Len(delivered')])

\* the open group is written, a group of the last row alone is started,
\* _fetcherDone is set and HASMORE returned
WrittenAndRestarted ==
  /\ pc' = "idle"
  /\ status' = "HASMORE"
  /\ fetcherDone'
  /\ writes' = writes + 1
  /\ Len(output') = Len(output) + 1
  /\ output'[Len(output')].members = currentGroup.members
  /\ output'[Len(output')].produced
  /\ isValid(currentGroup')
  /\ currentGroup'.members = <<Len(delivered')>>

\* the invocation after HASMORE of an exhausted fetcher writes the group of
\* the last row and returns DONE without a fetch
LastGroupWithoutFetch ==
  (pc = "idle" /\ status = "HASMORE" /\ exhausted /\ pc' # "destroyed")
    => /\ pc' = "done"
       /\ status' = "DONE"
       /\ lastFetch' = "NONE"
       /\ delivered' = delivered
       /\ pulledAfterDone' = pulledAfterDone
       /\ writes' = writes + 1
       /\ output' = Append(output, output'[Len(output')])
       /\ output'[Len(output')].members = <<Len(delivered)>>
       /\ output'[Len(output')].produced
       /\ ~isValid(currentGroup')

\* C16: when the fetcher delivers its last row with DONE and that row does
\* not belong to the open group, the invocation writes the open group, starts
\* a group holding that row alone, sets _fetcherDone and returns HASMORE; the
\* invocation after it writes that group and returns DONE without a fetch.
C16_LastRowStartsGroup ==
  /\ [][LastRowEndsGroup => WrittenAndRestarted]_vars
  /\ [][LastGroupWithoutFetch]_vars

\* the same where the open group has its buffer open, or needs none
C16_WhenBufferOpen ==
  /\ [][(LastRowEndsGroup /\ (ArrayMode => isOpenArray(currentGroup.builder)))
          => WrittenAndRestarted]_vars
  /\ [][LastGroupWithoutFetch]_vars

\* DONE returned without a fetch, after the last row had come with DONE and
\* had started a group of its own
C16_Witness ==
  /\ pc = "done"
  /\ lastFetch = "NONE"
  /\ exhausted
  /\ Len(delivered) = MaxLen
  /\ Len(output) >= 2
  /\ output[Len(output)].members = <<MaxLen>>

\* C17: after the exception of a failure point (in reduce, toVelocyPack,
\* clone, or a TRI_IF_FAILURE) the invocation has returned no state, and every
\* row of the output has all its columns written: writeToOutput had not
\* started, or it had finished.
C17_NoPartialRow ==
  failed \in FailurePoints =>
    /\ pc \in {"fault", "destroyed"}
    /\ status = "FAULT"
    /\ Len(output) = writes
    /\ \A i \in 1 .. Len(output) : output[i].produced

\* an exception after a row was written in the same invocation: thrown by
\* the clone or the addLine of reset(input)
C17_Witness ==
  /\ failed \in FailurePoints \ {"SortedCollectExecutor::produceRow"}
  /\ pc = "fault"
  /\ writes = writesAtEntry + 1
  /\ Len(output) = 2

\* C18: if the fetcher answers WAITING only finitely often and the caller
\* invokes produceRow again after every WAITING and HASMORE, some invocation
\* returns DONE; and the loop of an invocation is always left.
C18_EventuallyDone ==
  /\ <>(pc = "done")
  /\ (pc = "loop") ~> (pc # "loop")

\* the same, counting an invocation ended by a failed assertion as the end
C18_DoneUnlessAssertion ==
  /\ <>(pc = "done" \/ failed \in {"assert lastInputRow", "assert isOpenArray"})
  /\ (pc = "loop") ~> (pc # "loop")

\* outside the array modes some invocation returns DONE
C18_OutsideArrayModes == <>(pc = "done" \/ ArrayMode)

\* C19: once the fetcher has answered DONE, with a row or without, produceRow
\* does not call fetchRow again; also when the only row of the stream comes
\* with DONE while no group is open.
C19_NoFetchAfterDone == ~pulledAfterDone

\* fetchRow is called after DONE only where the row that came with DONE
\* started the first group: that one call returns no row, and DONE follows
C19_OneFetchAfterDone ==
  pulledAfterDone =>
    /\ pc \in {"done", "destroyed"}
    /\ lastFetch = "DONE"
    /\ infos.nGroup > 0
    /\ Len(output) = Len(delivered)
    /\ \A i \in 1 .. Len(output) : output[i].members = <<i>>

\* C20: with a group-key column, a group is only ever opened by reset(row):
\* while a group is open its key slots hold the clones of a row's key, never
\* the empty value that addLine on an invalid group would leave there.
C20_OpenedByReset ==
  (infos.nGroup > 0 /\ pc \in {"idle", "loop", "done"} /\ isValid(currentGroup))
    => \A i \in 1 .. infos.nGroup : currentGroup.groupValues[i] # EmptyValue

\* C20, as the claim puts it for the invalid group: isSameGroup is false for
\* every row
C20_InvalidNeverSame ==
  (infos.nGroup > 0 /\ ~isValid(currentGroup))
    => \A r \in Rows(infos.nGroup, Len(delivered) + 1) : ~isSameGroup(currentGroup, r)

\* the same for the rows with a key that is not null in every column
C20_NonNullNeverSame ==
  (infos.nGroup > 0 /\ pc \in {"idle", "loop", "done"} /\ ~isValid(currentGroup))
    => \A r \in Rows(infos.nGroup, Len(delivered) + 1) :
         (\E i \in 1 .. infos.nGroup : r.key[i] # Null) => ~isSameGroup(currentGroup, r)

====
